---- MODULE Spec2Model ----
(***************************************************************************)
(* Weather RSS Feed Application: the SQLite store (backend/database.py),   *)
(* the source-health tracker, the quality assessor (backend/fetcher.py)    *)
(* and the ingestion runs of the scheduler (backend/scheduler.py).         *)
(*                                                                         *)
(* Every Database method runs under self._lock, so each call is one atomic *)
(* step; the connection is opened with isolation_level=None (autocommit),  *)
(* so each SQL statement inside a call is committed on its own.            *)
(*                                                                         *)
(* Columns that no operation reads back (data_date, conditions,            *)
(* conditions_code, source_url of a forecast; description, published_at,   *)
(* alert_level, affected_zones, time_range of an alert; the AUTOINCREMENT  *)
(* id) are not carried in the rows.                                        *)
(***************************************************************************)
EXTENDS Integers, Sequences, FiniteSets, TLC

\* ---------------------------------------------------------------- bounds
MaxTime == 2
MaxTemp == 2
MaxAttempts == 4
MaxTotal == 10
MaxHours == 1

\* ------------------------------------------------------------- constants
FORECAST_URL == "prognoza-orase-xml.php"
AlertUrlShared == FORECAST_URL

ALERT_URL == "avertizari-rss.php"
Sources == {FORECAST_URL, ALERT_URL}
SourceTypeOf(url) == IF url = FORECAST_URL THEN "forecast" ELSE "alert"
SourceNameOf(url) == IF url = FORECAST_URL THEN "ANM Romania Forecasts" ELSE "ANM Romania Alerts"

\* SQL NULL / Python None, for a text column and for a timestamp column.
NULL == "NULL"
NoTime == -1

Cities == {"Arad", "Bacau"}
Dates == {"2024-01-01"}
Keys == Cities \X Dates
Temps == 1..MaxTemp
Titles == {"cod galben", "cod rosu"}
Links == {"link1", "link2"}
ErrTexts == {"HTTP error 503", "Request timed out after 15s"}
RespTimes == {1, 4}

VARIABLES
    city_forecasts,   \* table city_forecasts: a set of rows
    weather_alerts,   \* table weather_alerts: a set of rows
    source_status,    \* table source_status: a set of rows
    now,              \* the wall clock read by datetime('now') and datetime.utcnow()
    last_insert,      \* history: per (city, forecast_date), the last insert_forecast call and its result
    last_alert_call,  \* history: whether the last insert_alert call met a stored (a deactivated) fingerprint, and its result
    attempts,         \* history: per source, the (success, response_time_ms) of every health update
    last_health_call, \* history: the arguments of the last update_source_status call
    valid_in,         \* _assess_quality: argument valid
    total_in,         \* _assess_quality: argument total
    quality_out,      \* _assess_quality: the value returned
    pc,               \* per thread: where it stands in fetch_all / _fetch_forecasts / _fetch_alerts
    records,          \* per thread: the local list forecasts / alerts of the current run
    idx,              \* per thread: the position of the for loop in that list
    metadata,         \* per thread: the local FetchMetadata of the current run
    added,            \* per thread: the local counter added
    result,           \* per thread: the local FetchResult of the current run
    last_forecast_result,  \* WeatherScheduler._last_forecast_result
    last_alert_result,     \* WeatherScheduler._last_alert_result
    last_sync_status,      \* WeatherScheduler._last_sync_status
    cached_cities,    \* ANMFetcher._cached_cities
    is_running,       \* WeatherScheduler._is_running
    job_store,        \* BackgroundScheduler: per job id, the number of jobs stored under it
    instances,        \* BackgroundScheduler: per job id, the number of its instances executing
    stopping,         \* the caller of stop is inside scheduler.shutdown(wait=True)
    start_error,      \* the exception a call of start has raised, if any
    results,          \* fetch_all: the local list results of the call in progress
    returned,         \* history: how the last trigger_immediate_fetch call ended
    calls,            \* the number of job runs and trigger calls begun so far
    storage_errors,   \* the number of Database calls of the runs that met sqlite3.Error so far
    clean,            \* history, per thread: the run met no storage error and no other run of its source
    faulted,          \* history, per thread: a Database call of the run met sqlite3.Error
    before,           \* history, per thread: the table of the run's source when the run began
    fetch_pc,         \* _fetch_raw: where the call stands
    requests_made,    \* history: the HTTP requests sent by the call of _fetch_raw so far
    retries_left,     \* Retry.total of the request being sent
    redirects,        \* the redirects the Session has followed in this call
    last_response,    \* the answer to the last HTTP request of the call
    fetch_result,     \* what _fetch_raw returned or raised
    raw_in,           \* _parse_forecast_xml / _parse_alert_rss: the document handed in
    parsed_out        \* _parse_forecast_xml / _parse_alert_rss: the value returned

vars == <<city_forecasts, weather_alerts, source_status, now, last_insert,
          last_alert_call, attempts, last_health_call, valid_in, total_in,
          quality_out, pc, records, idx, metadata, added, result,
          last_forecast_result, last_alert_result, last_sync_status,
          cached_cities, is_running, calls, storage_errors, clean, before,
          faulted, job_store, instances, stopping, start_error, results, returned,
          fetch_pc, requests_made, retries_left, redirects, last_response,
          fetch_result, raw_in, parsed_out>>

storeVars == <<city_forecasts, weather_alerts, last_insert, last_alert_call>>
healthVars == <<source_status, attempts, last_health_call>>
qualityVars == <<valid_in, total_in, quality_out>>
fetchVars == <<fetch_pc, requests_made, retries_left, redirects, last_response, fetch_result>>
parseVars == <<raw_in, parsed_out>>
pureVars == <<qualityVars, fetchVars, parseVars>>
historyVars == <<clean, before, faulted>>
localVars == <<pc, records, idx, metadata, added, result, historyVars>>
lastVars == <<last_forecast_result, last_alert_result, last_sync_status>>
controlVars == <<is_running, job_store, stopping, start_error>>
callVars == <<results, returned>>
schedulerVars == <<lastVars, cached_cities, controlVars, instances, calls,
                   storage_errors, callVars>>
runVars == <<localVars, schedulerVars>>

\* ------------------------------------------------------ content fingerprint
\* _compute_hash: SHA-256 over the joined fields; distinct field tuples give
\* distinct digests, equal tuples equal digests. The forecast digest also
\* covers the conditions text, which is one and the same text in every entry
\* of the documents below.
ForecastHash(city, forecast_date, temp_min, temp_max) ==
    <<city, forecast_date, temp_min, temp_max>>

\* The alert digest covers title, raw description and published date, not the link.
AlertHash(title) == <<title>>

\* -------------------------------------------------------- forecast table
Forecast(city, forecast_date, temp_min, temp_max) ==
    [city |-> city, forecast_date |-> forecast_date,
     temp_min |-> temp_min, temp_max |-> temp_max,
     content_hash |-> ForecastHash(city, forecast_date, temp_min, temp_max)]

ForecastInputs ==
    {Forecast(c, d, lo, hi) : c \in Cities, d \in Dates, lo \in Temps, hi \in Temps}

\* The ways a call can meet sqlite3.Error: at the DELETE, or at the INSERT
\* after the DELETE was committed.
ForecastFaults == {"none", "delete", "insert"}

DeleteNothing(table, city, forecast_date) == table

DeleteAll(table, city, forecast_date) == {}

\* DELETE FROM city_forecasts WHERE city = ? AND forecast_date = ?
DeleteForecasts(table, city, forecast_date) ==
    {r \in table : ~(r.city = city /\ r.forecast_date = forecast_date)}

\* UNIQUE(city, forecast_date, content_hash)
ForecastUniqueViolated(table, f) ==
    \E r \in table : /\ r.city = f.city
                     /\ r.forecast_date = f.forecast_date
                     /\ r.content_hash = f.content_hash

ForecastRow(f, at) ==
    [city |-> f.city, forecast_date |-> f.forecast_date,
     temp_min |-> f.temp_min, temp_max |-> f.temp_max,
     content_hash |-> f.content_hash, fetched_at |-> at]

InsertForecastIfChanged(table, f, fault) ==
    fault = "none" /\ ~ForecastUniqueViolated(table, f)

\* insert_forecast: the value returned.
InsertForecastResult(table, f, fault) ==
    /\ fault = "none"
    /\ ~ForecastUniqueViolated(DeleteForecasts(table, f.city, f.forecast_date), f)

\* insert_forecast: the table after the call.
InsertForecastTable(table, f, fault, at) ==
    IF fault = "delete" THEN table
    ELSE LET deleted == DeleteForecasts(table, f.city, f.forecast_date)
         IN  IF fault = "insert" \/ ForecastUniqueViolated(deleted, f)
             THEN deleted
             ELSE deleted \cup {ForecastRow(f, at)}

insert_forecast(f, fault) ==
    /\ city_forecasts' = InsertForecastTable(city_forecasts, f, fault, now)
    /\ last_insert' = [last_insert EXCEPT ![<<f.city, f.forecast_date>>] =
                          [called |-> TRUE,
                           ok |-> InsertForecastResult(city_forecasts, f, fault),
                           changed |-> \E r \in city_forecasts :
                                          /\ r.city = f.city
                                          /\ r.forecast_date = f.forecast_date
                                          /\ r.content_hash # f.content_hash,
                           temp_min |-> f.temp_min, temp_max |-> f.temp_max]]

\* ----------------------------------------------------------- alert table
Alert(title, link) ==
    [title |-> title, link |-> link, content_hash |-> AlertHash(title)]

AlertInputs == {Alert(t, l) : t \in Titles, l \in Links}

AlertFaults == {"none", "insert"}

AlertRow(a, at) ==
    [title |-> a.title, link |-> a.link, content_hash |-> a.content_hash,
     fetched_at |-> at, is_active |-> 1]

SameRowExists(table, a) ==
    \E r \in table : r.content_hash = a.content_hash /\ r.link = a.link

\* content_hash TEXT NOT NULL UNIQUE, as INSERT OR IGNORE sees it.
HashExists(table, a) == \E r \in table : r.content_hash = a.content_hash

InsertAlertAlways(table, a, fault) == fault = "none"

\* insert_alert: the value returned (SELECT changes() > 0).
InsertAlertResult(table, a, fault) == fault = "none" /\ ~HashExists(table, a)

\* insert_alert: the table after the call.
InsertAlertTable(table, a, fault, at) ==
    IF InsertAlertResult(table, a, fault) THEN table \cup {AlertRow(a, at)} ELSE table

insert_alert(a, fault) ==
    /\ weather_alerts' = InsertAlertTable(weather_alerts, a, fault, now)
    /\ last_alert_call' = [called |-> TRUE,
                           known |-> HashExists(weather_alerts, a),
                           inactive |-> \E r \in weather_alerts :
                                           /\ r.content_hash = a.content_hash
                                           /\ r.is_active = 0,
                           ok |-> InsertAlertResult(weather_alerts, a, fault)]

\* deactivate_old_alerts: rows with is_active = 1 and fetched_at < now - hours.
IsOld(r, hours, at) == r.is_active = 1 /\ r.fetched_at < at - hours

DeletedOldTable(table, hours, at) == {r \in table : ~IsOld(r, hours, at)}

DeactivatedTable(table, hours, at) ==
    {IF IsOld(r, hours, at) THEN [r EXCEPT !.is_active = 0] ELSE r : r \in table}

deactivate_old_alerts(hours) ==
    weather_alerts' = DeactivatedTable(weather_alerts, hours, now)

\* get_alert_count
get_alert_count == Cardinality({r \in weather_alerts : r.is_active = 1})

\* ---------------------------------------------------------- source health
HasStatusRow(table, url) == \E r \in table : r.source_url = url
StatusRow(table, url) == CHOOSE r \in table : r.source_url = url

NewAvgExact(old_avg, fetch_count, response_time_ms) ==
    IF fetch_count > 0
    THEN (old_avg * fetch_count + response_time_ms + fetch_count) \div (fetch_count + 1)
    ELSE response_time_ms

\* new_avg = int((old_avg * fetch_count + response_time_ms) / (fetch_count + 1))
NewAvg(old_avg, fetch_count, response_time_ms) ==
    IF fetch_count > 0
    THEN (old_avg * fetch_count + response_time_ms) \div (fetch_count + 1)
    ELSE response_time_ms

StreakNeverReset(success, old_failures) == old_failures + (IF success THEN 0 ELSE 1)

\* consecutive_failures = 0 if success else (old_failures + 1)
ConsecutiveFailures(success, old_failures) ==
    IF success THEN 0 ELSE old_failures + 1

StatusOf(success) == IF success THEN "ok" ELSE "error"

ErrorCountFrozen(old, success) == old

\* success_count = success_count + CASE WHEN ? THEN 1 ELSE 0 END
SuccessCountAfter(old, success) == old + (IF success THEN 1 ELSE 0)

\* error_count = error_count + CASE WHEN ? THEN 0 ELSE 1 END
ErrorCountAfter(old, success) == old + (IF success THEN 0 ELSE 1)

LastSuccessAlways(old, success, at) == at

\* last_success_at = CASE WHEN ? THEN ? ELSE last_success_at END
LastSuccessAfter(old, success, at) == IF success THEN at ELSE old

UpdatedStatusRowLostUpdate(existing, success, data_quality, is_fresh, entries_count, error_message, response_time_ms, at) ==
    [existing EXCEPT !.last_fetch_at = at, !.status = StatusOf(success)]

\* The UPDATE branch (a row exists for source_url).
UpdatedStatusRow(existing, success, data_quality, is_fresh, entries_count, error_message, response_time_ms, at) ==
    [existing EXCEPT
        !.source_type = SourceTypeOf(existing.source_url),
        !.source_name = SourceNameOf(existing.source_url),
        !.last_fetch_at = at,
        !.last_success_at = LastSuccessAfter(@, success, at),
        !.fetch_count = @ + 1,
        !.success_count = SuccessCountAfter(@, success),
        !.error_count = ErrorCountAfter(@, success),
        !.last_error = IF success THEN NULL ELSE error_message,
        !.status = StatusOf(success),
        !.data_quality = data_quality,
        !.is_fresh = IF is_fresh THEN 1 ELSE 0,
        !.avg_response_time_ms =
            NewAvg(existing.avg_response_time_ms, existing.fetch_count, response_time_ms),
        !.last_response_time_ms = response_time_ms,
        !.consecutive_failures =
            ConsecutiveFailures(success, existing.consecutive_failures),
        !.entries_count = entries_count]

\* The INSERT branch (no row yet for source_url).
InsertedStatusRow(url, success, data_quality, is_fresh, entries_count, error_message, response_time_ms, at) ==
    [source_url |-> url,
     source_type |-> SourceTypeOf(url),
     source_name |-> SourceNameOf(url),
     last_fetch_at |-> at,
     last_success_at |-> IF success THEN at ELSE NoTime,
     fetch_count |-> 1,
     success_count |-> IF success THEN 1 ELSE 0,
     error_count |-> IF success THEN 0 ELSE 1,
     last_error |-> error_message,
     status |-> StatusOf(success),
     data_quality |-> data_quality,
     is_fresh |-> IF is_fresh THEN 1 ELSE 0,
     avg_response_time_ms |-> response_time_ms,
     last_response_time_ms |-> response_time_ms,
     consecutive_failures |-> IF success THEN 0 ELSE 1,
     entries_count |-> entries_count]

\* update_source_status: the table after the call.
SourceStatusAfter(table, url, success, data_quality, is_fresh, entries_count, error_message, response_time_ms, at) ==
    IF HasStatusRow(table, url)
    THEN LET existing == StatusRow(table, url)
         IN  (table \ {existing}) \cup
             {UpdatedStatusRow(existing, success, data_quality, is_fresh,
                               entries_count, error_message, response_time_ms, at)}
    ELSE table \cup
         {InsertedStatusRow(url, success, data_quality, is_fresh, entries_count,
                            error_message, response_time_ms, at)}

update_source_status(url, success, data_quality, is_fresh, entries_count, error_message, response_time_ms) ==
    /\ source_status' = SourceStatusAfter(source_status, url, success, data_quality,
                                          is_fresh, entries_count, error_message,
                                          response_time_ms, now)
    /\ attempts' = [attempts EXCEPT ![url] =
                       Append(@, [success |-> success, rt |-> response_time_ms])]
    /\ last_health_call' = [source_url |-> url, success |-> success,
                            error_message |-> error_message]

ReliabilityTruncated(r) ==
    IF r.fetch_count > 0 THEN (r.success_count * 1000) \div r.fetch_count ELSE 0

\* get_system_status: reliability_percent, in tenths of a percent:
\* ROUND(CAST(success_count AS FLOAT) / fetch_count * 100, 1), 0 without fetches.
ReliabilityPercent(r) ==
    IF r.fetch_count > 0
    THEN (2 * r.success_count * 1000 + r.fetch_count) \div (2 * r.fetch_count)
    ELSE 0

\* get_system_status: the rows read, each with its derived reliability_percent.
get_system_status ==
    {[row |-> r, reliability_percent |-> ReliabilityPercent(r)] : r \in source_status}

\* --------------------------------------------------------- quality assessor
AssessQualityStrictHalf(valid, total) ==
    IF total = 0 THEN "unavailable"
    ELSE IF valid = 0 THEN "invalid"
    ELSE IF valid = total THEN "valid"
    ELSE IF 2 * valid > total THEN "partial"
    ELSE "invalid"

\* _assess_quality; valid >= total * 0.5 is 2 * valid >= total on integers.
assess_quality(valid, total) ==
    IF total = 0 THEN "unavailable"
    ELSE IF valid = 0 THEN "invalid"
    ELSE IF valid = total THEN "valid"
    ELSE IF 2 * valid >= total THEN "partial"
    ELSE "invalid"

\* ------------------------------------------------------- upstream documents
\* One <prognoza> element with the name of the <localitate> around it; every
\* field is text. An absent attribute or element reads as "".
RawForecast(nume, data, temp_min, temp_max) ==
    [nume |-> nume, data |-> data, temp_min |-> temp_min, temp_max |-> temp_max]

NeverIntText(text) == FALSE

\* int(text) succeeds
IsIntText(text) == \E n \in Temps : ToString(n) = text
IntOf(text) == CHOOSE n \in Temps : ToString(n) = text

\* _parse_forecast_xml, over the per-day entries in document order.
RECURSIVE parse_forecast_xml(_)
parse_forecast_xml(doc) ==
    IF doc = <<>>
    THEN [forecasts |-> <<>>, valid_count |-> 0, total_count |-> 0]
    ELSE LET head == parse_forecast_xml(SubSeq(doc, 1, Len(doc) - 1))
             e == doc[Len(doc)]
         IN  IF e.nume = "" THEN head
             ELSE IF \/ e.data = "" \/ e.temp_min = "" \/ e.temp_max = ""
                     \/ ~IsIntText(e.temp_min) \/ ~IsIntText(e.temp_max)
                  THEN [head EXCEPT !.total_count = @ + 1]
                  ELSE [forecasts |-> Append(head.forecasts,
                                             Forecast(e.nume, e.data,
                                                      IntOf(e.temp_min), IntOf(e.temp_max))),
                        valid_count |-> head.valid_count + 1,
                        total_count |-> head.total_count + 1]

\* The forecast documents the upstream serves in this model: two cities; one
\* city with changed temperatures and the other city gone; a document with an
\* unparseable entry and a nameless location; one city listed twice.
ForecastDocs ==
    {<<RawForecast("Arad", "2024-01-01", "1", "1"),
       RawForecast("Bacau", "2024-01-01", "1", ToString(MaxTemp))>>,
     <<RawForecast("Arad", "2024-01-01", ToString(MaxTemp), "1")>>,
     <<RawForecast("Bacau", "2024-01-01", "1", "1"),
       RawForecast("Bacau", "2024-01-01", "1", "x"),
       RawForecast("", "2024-01-01", "1", "1")>>,
     <<RawForecast("Arad", "2024-01-01", "1", "1"),
       RawForecast("Arad", "2024-01-01", ToString(MaxTemp), ToString(MaxTemp))>>}

\* One feed item; extracted is FALSE when extracting its fields raises.
RawAlert(title, link, extracted) ==
    [title |-> title, link |-> link, extracted |-> extracted]

\* _parse_alert_rss, over parsed.entries in feed order.
RECURSIVE parse_alert_rss(_)
parse_alert_rss(feed) ==
    IF feed = <<>>
    THEN [alerts |-> <<>>, valid_count |-> 0, total_count |-> 0]
    ELSE LET head == parse_alert_rss(SubSeq(feed, 1, Len(feed) - 1))
             item == feed[Len(feed)]
         IN  IF ~item.extracted
             THEN [head EXCEPT !.total_count = @ + 1]
             ELSE [alerts |-> Append(head.alerts, Alert(item.title, item.link)),
                   valid_count |-> head.valid_count + 1,
                   total_count |-> head.total_count + 1]

\* The alert feeds the upstream serves in this model: two alerts; the first of
\* them again under another link; one alert listed twice plus a broken item.
AlertFeeds ==
    {<<RawAlert("cod galben", "link1", TRUE), RawAlert("cod rosu", "link1", TRUE)>>,
     <<RawAlert("cod galben", "link2", TRUE)>>,
     <<RawAlert("cod rosu", "link1", TRUE), RawAlert("cod rosu", "link2", TRUE),
       RawAlert("cod rosu", "link1", FALSE)>>}

\* The FetchError text of _fetch_raw and the ValidationError texts the runs
\* meet, and the response time the runs measure; the arithmetic over several
\* response times and error texts is exercised by SpecHealth.
FetchErrors == {"Request timed out after 15s"}
RunRespTimes == {4}
ForecastValidationErrors == {"Invalid XML structure"}
AlertValidationErrors == {"RSS parsing failed"}
StorageError == "disk I/O error"

\* ---------------------------------------------------------- threads, records
Jobs == {"forecast_job", "alert_job"}
Triggers == {"trigger"}
Threads == Jobs \cup Triggers

\* FetchMetadata, as the orchestrators read it.
Metadata(success, entries_count, valid_entries, error_message, response_time_ms, data_quality, is_fresh) ==
    [success |-> success, entries_count |-> entries_count,
     valid_entries |-> valid_entries, error_message |-> error_message,
     response_time_ms |-> response_time_ms, data_quality |-> data_quality,
     is_fresh |-> is_fresh]

NoMetadata == Metadata(FALSE, 0, 0, NULL, 0, "none", FALSE)

\* FetchResult
FetchResult(source_type, success, entries_added, total_entries, error_message, data_quality, response_time_ms) ==
    [source_type |-> source_type, success |-> success,
     entries_added |-> entries_added, total_entries |-> total_entries,
     error_message |-> error_message, data_quality |-> data_quality,
     response_time_ms |-> response_time_ms]

\* None, for an Optional[FetchResult] and an Optional[SyncStatus].
NoResult == FetchResult("none", FALSE, 0, 0, NULL, "none", 0)
NoSyncStatus ==
    [last_sync_time |-> NoTime, forecast_healthy |-> "None", alert_healthy |-> "None",
     overall_quality |-> "none", cities_available |-> 0, active_alerts |-> 0]

\* What a trigger_immediate_fetch call handed back: the list it returned, or
\* the exception that left it.
Returned(raised, list) == [called |-> TRUE, raised |-> raised, results |-> list]
NoReturn == [called |-> FALSE, raised |-> FALSE, results |-> <<>>]

\* ------------------------------------------------------------ initial state
\* Database.__init__: the three tables exist and are empty.
InitStore ==
    /\ city_forecasts = {}
    /\ weather_alerts = {}
    /\ last_insert = [k \in Keys |-> [called |-> FALSE, ok |-> FALSE, changed |-> FALSE,
                                      temp_min |-> 0, temp_max |-> 0]]
    /\ last_alert_call = [called |-> FALSE, known |-> FALSE, inactive |-> FALSE, ok |-> FALSE]

InitHealth ==
    /\ source_status = {}
    /\ attempts = [s \in Sources |-> <<>>]
    /\ last_health_call = [source_url |-> "none", success |-> FALSE,
                           error_message |-> NULL]

InitQuality ==
    /\ valid_in = 0
    /\ total_in = 0
    /\ quality_out = "unassessed"

\* ANMFetcher.__init__: the session is created, no request sent.
InitFetch ==
    /\ fetch_pc = "idle"
    /\ requests_made = 0
    /\ retries_left = 0
    /\ redirects = 0
    /\ last_response = "none"
    /\ fetch_result = NULL

\* No document parsed yet.
NotParsed == [done |-> FALSE, records |-> <<>>, valid_count |-> 0, total_count |-> 0]

InitParse ==
    /\ raw_in = <<>>
    /\ parsed_out = NotParsed

\* WeatherScheduler.__init__ and ANMFetcher.__init__: nothing fetched yet, the
\* scheduler not started, every thread outside fetch_all and the two jobs.
InitRuns ==
    /\ pc = [t \in Threads |-> "idle"]
    /\ records = [t \in Threads |-> <<>>]
    /\ idx = [t \in Threads |-> 1]
    /\ metadata = [t \in Threads |-> NoMetadata]
    /\ added = [t \in Threads |-> 0]
    /\ result = [t \in Threads |-> NoResult]
    /\ clean = [t \in Threads |-> TRUE]
    /\ before = [t \in Threads |-> {}]
    /\ faulted = [t \in Threads |-> FALSE]
    /\ last_forecast_result = NoResult
    /\ last_alert_result = NoResult
    /\ last_sync_status = NoSyncStatus
    /\ cached_cities = {}
    /\ is_running = FALSE
    /\ job_store = [j \in Jobs |-> 0]
    /\ instances = [j \in Jobs |-> 0]
    /\ stopping = FALSE
    /\ start_error = NULL
    /\ results = <<>>
    /\ returned = NoReturn
    /\ calls = 0
    /\ storage_errors = 0

\* The clock advances on its own.
Tick ==
    /\ now < MaxTime
    /\ now' = now + 1
    /\ UNCHANGED <<storeVars, healthVars, pureVars, runVars>>

\* ------------------------------------------ the forecast table, called directly
CallInsertForecast ==
    \E f \in ForecastInputs, fault \in ForecastFaults :
        /\ insert_forecast(f, fault)
        /\ UNCHANGED <<weather_alerts, last_alert_call, now, healthVars, pureVars, runVars>>

InitForecasts == InitStore /\ InitHealth /\ InitQuality /\ InitFetch /\ InitParse /\ InitRuns /\ now = 0

NextForecasts == CallInsertForecast \/ Tick

SpecForecasts == InitForecasts /\ [][NextForecasts]_vars

\* --------------------------------------------- the alert table, called directly
CallInsertAlert ==
    \E a \in AlertInputs, fault \in AlertFaults :
        /\ insert_alert(a, fault)
        /\ UNCHANGED <<city_forecasts, last_insert, now, healthVars, pureVars, runVars>>

CallDeactivateOldAlerts ==
    \E hours \in 0..MaxHours :
        /\ deactivate_old_alerts(hours)
        /\ UNCHANGED <<city_forecasts, last_insert, last_alert_call, now,
                       healthVars, pureVars, runVars>>

InitAlerts == InitStore /\ InitHealth /\ InitQuality /\ InitFetch /\ InitParse /\ InitRuns /\ now = 0

NextAlerts == CallInsertAlert \/ CallDeactivateOldAlerts \/ Tick

SpecAlerts == InitAlerts /\ [][NextAlerts]_vars

\* ------------------------------------------- the health tracker, called directly
\* The argument combinations the two orchestrators pass: a successful fetch
\* carries an assessed quality, is_fresh and no error text; a failed one carries
\* quality unavailable, zero entries and the error text.
HealthOutcomes ==
    {[success |-> TRUE, data_quality |-> "valid", is_fresh |-> TRUE,
      entries_count |-> 1, error_message |-> NULL],
     [success |-> TRUE, data_quality |-> "unavailable", is_fresh |-> TRUE,
      entries_count |-> 0, error_message |-> NULL]}
    \cup
    {[success |-> FALSE, data_quality |-> "unavailable", is_fresh |-> FALSE,
      entries_count |-> 0, error_message |-> e] : e \in ErrTexts}

TotalAttempts == Len(attempts[FORECAST_URL]) + Len(attempts[ALERT_URL])

CallUpdateSourceStatus ==
    \E url \in Sources, o \in HealthOutcomes, rt \in RespTimes :
        /\ TotalAttempts < MaxAttempts
        /\ update_source_status(url, o.success, o.data_quality, o.is_fresh,
                                o.entries_count, o.error_message, rt)
        /\ UNCHANGED <<storeVars, now, pureVars, runVars>>

InitHealthSpec == InitStore /\ InitHealth /\ InitQuality /\ InitFetch /\ InitParse /\ InitRuns /\ now = 0

NextHealth == CallUpdateSourceStatus \/ Tick

SpecHealth == InitHealthSpec /\ [][NextHealth]_vars

\* --------------------------------------------- the quality assessor, applied
InitQualitySpec ==
    /\ InitStore /\ InitHealth /\ InitFetch /\ InitParse /\ InitRuns /\ now = 0
    /\ total_in \in 0..MaxTotal
    /\ valid_in \in 0..total_in
    /\ quality_out = "unassessed"

CallAssessQuality ==
    /\ quality_out = "unassessed"
    /\ quality_out' = assess_quality(valid_in, total_in)
    /\ UNCHANGED <<valid_in, total_in, fetchVars, parseVars, storeVars, healthVars,
                   now, runVars>>

NextQuality == CallAssessQuality

SpecQuality == InitQualitySpec /\ [][NextQuality]_vars

\* ------------------------------------------------ the parsers, applied
MaxEntries == 3

\* The sequences over S of length at most n.
SeqsUpTo(S, n) == UNION {[1..k -> S] : k \in 0..n}

\* The <prognoza> elements a document can hold: under a named or a nameless
\* <localitate>, with or without the date, the minimum present as an integer,
\* present as other text, or absent.
RawForecasts ==
    {RawForecast(nume, data, temp_min, "1") :
        nume \in {"Arad", ""}, data \in {"2024-01-01", ""}, temp_min \in {"1", "x", ""}}

\* The items a feed can hold.
RawAlerts == {RawAlert(title, "link1", extracted) : title \in Titles, extracted \in BOOLEAN}

InitParseSpec ==
    /\ InitStore /\ InitHealth /\ InitQuality /\ InitFetch /\ InitRuns /\ now = 0
    /\ raw_in \in {[kind |-> "forecast", entries |-> d] : d \in SeqsUpTo(RawForecasts, MaxEntries)}
               \cup {[kind |-> "alert", entries |-> d] : d \in SeqsUpTo(RawAlerts, MaxEntries)}
    /\ parsed_out = NotParsed

CallParseForecastXml ==
    /\ ~parsed_out.done
    /\ raw_in.kind = "forecast"
    /\ LET parsed == parse_forecast_xml(raw_in.entries)
       IN  parsed_out' = [done |-> TRUE, records |-> parsed.forecasts,
                          valid_count |-> parsed.valid_count,
                          total_count |-> parsed.total_count]
    /\ UNCHANGED <<raw_in, qualityVars, fetchVars, storeVars, healthVars, now, runVars>>

CallParseAlertRss ==
    /\ ~parsed_out.done
    /\ raw_in.kind = "alert"
    /\ LET parsed == parse_alert_rss(raw_in.entries)
       IN  parsed_out' = [done |-> TRUE, records |-> parsed.alerts,
                          valid_count |-> parsed.valid_count,
                          total_count |-> parsed.total_count]
    /\ UNCHANGED <<raw_in, qualityVars, fetchVars, storeVars, healthVars, now, runVars>>

NextParse == CallParseForecastXml \/ CallParseAlertRss

SpecParse == InitParseSpec /\ [][NextParse]_vars

\* ------------------------------------------------------- the fetch client
\* MAX_RETRIES
MAX_RETRIES == 3

\* The redirects a Session follows before it gives up (Session.max_redirects).
MaxRedirects == 1

\* status_forcelist=[429, 500, 502, 503, 504]
StatusForcelist == {"429", "500", "502", "503", "504"}

\* The network errors an HTTP request can end with instead of a response.
NetworkErrors == {"ConnectTimeout", "ConnectionError"}

\* The answers to one HTTP request in this model: a response by its status,
\* or a network error.
Responses == {"200", "302", "404", "429", "500", "503"} \cup NetworkErrors

\* What _fetch_raw returns, and the FetchError texts it raises.
Payload == "payload"
TimedOut == "Request timed out after 15s"
Unreachable == "Connection error - source unavailable"
HttpError == "HTTP error 404"
RequestFailed == "Request failed"
FetchFailures == {TimedOut, Unreachable, HttpError, RequestFailed}

\* Retry(total=MAX_RETRIES, status_forcelist=..., allowed_methods=["GET", "HEAD"]):
\* a GET is sent again after a network error and after a response whose
\* status is in the forcelist.
IsRetry(resp) == resp \in NetworkErrors \cup StatusForcelist

\* allow_redirects=True: the Session follows a redirect response with a new
\* request, sent through the adapter with the full retry budget.
IsRedirect(resp) == resp = "302"

\* The except clauses of _fetch_raw, for the exception the Session raises
\* once the retries are used up: ConnectTimeout is a requests.Timeout,
\* RetryError (forcelist status) is a plain RequestException.
ExhaustedError(resp) ==
    IF resp = "ConnectTimeout" THEN TimedOut
    ELSE IF resp = "ConnectionError" THEN Unreachable
    ELSE RequestFailed

\* _fetch_raw is called: self._session.get(url, timeout, allow_redirects=True)
fetch_raw ==
    /\ fetch_pc \in {"idle", "returned"}
    /\ fetch_pc' = "get"
    /\ requests_made' = 0
    /\ retries_left' = MAX_RETRIES
    /\ redirects' = 0
    /\ last_response' = "none"
    /\ fetch_result' = NULL
    /\ UNCHANGED <<storeVars, healthVars, qualityVars, parseVars, now, runVars>>

\* One HTTP request of the call and what the Session and _fetch_raw do with
\* its answer: retry, follow the redirect, return the content, or raise.
SendRequest ==
    /\ fetch_pc = "get"
    /\ \E resp \in Responses :
          /\ requests_made' = requests_made + 1
          /\ last_response' = resp
          /\ IF IsRetry(resp)
             THEN IF retries_left > 0
                  THEN /\ retries_left' = retries_left - 1
                       /\ UNCHANGED <<fetch_pc, redirects, fetch_result>>
                  ELSE /\ fetch_result' = ExhaustedError(resp)
                       /\ fetch_pc' = "returned"
                       /\ UNCHANGED <<retries_left, redirects>>
             ELSE IF IsRedirect(resp)
             THEN IF redirects < MaxRedirects
                  THEN /\ redirects' = redirects + 1
                       /\ retries_left' = MAX_RETRIES
                       /\ UNCHANGED <<fetch_pc, fetch_result>>
                  ELSE /\ fetch_result' = RequestFailed
                       /\ fetch_pc' = "returned"
                       /\ UNCHANGED <<retries_left, redirects>>
             ELSE /\ fetch_result' = IF resp = "200" THEN Payload ELSE HttpError
                  /\ fetch_pc' = "returned"
                  /\ UNCHANGED <<retries_left, redirects>>
    /\ UNCHANGED <<storeVars, healthVars, qualityVars, parseVars, now, runVars>>

InitFetchSpec ==
    /\ InitStore /\ InitHealth /\ InitQuality /\ InitFetch /\ InitParse /\ InitRuns
    /\ now = 0

NextFetch == fetch_raw \/ SendRequest

SpecFetch == InitFetchSpec /\ [][NextFetch]_vars

\* ------------------------------------------------------ the ingestion runs
MaxCalls == 2
MaxFaults == 1
MaxDue == 2

\* The sqlite3.Error of one Database call, counted.
StorageFault(faulty) ==
    /\ faulty => storage_errors < MaxFaults
    /\ storage_errors' = storage_errors + (IF faulty THEN 1 ELSE 0)

ForecastPcs == {"fetch_forecasts", "store_forecasts", "forecast_result"}
AlertPcs == {"fetch_alerts", "store_alerts", "alert_result"}

\* History: thread t begins a run over the table `table`, whose runs stand at `pcs`.
BeginRun(t, pcs, table) ==
    /\ before' = [before EXCEPT ![t] = table]
    /\ clean' = [u \in Threads |->
                    IF u = t THEN \A v \in Threads \ {t} : pc[v] \notin pcs
                    ELSE IF pc[u] \in pcs THEN FALSE
                    ELSE clean[u]]
    /\ faulted' = [faulted EXCEPT ![t] = FALSE]

\* History: thread t is in no run.
EndRun(t) ==
    /\ before' = [before EXCEPT ![t] = {}]
    /\ clean' = [clean EXCEPT ![t] = TRUE]
    /\ faulted' = [faulted EXCEPT ![t] = FALSE]

\* The locals of a run that has returned are gone.
ForgetRun(t) ==
    /\ records' = [records EXCEPT ![t] = <<>>]
    /\ idx' = [idx EXCEPT ![t] = 1]
    /\ metadata' = [metadata EXCEPT ![t] = NoMetadata]
    /\ added' = [added EXCEPT ![t] = 0]
    /\ result' = [result EXCEPT ![t] = NoResult]

\* ----------------------------------------------------------- start and stop
\* add_job(..., id=id, replace_existing=True): one job under the id, whatever
\* was stored under it before.
AddJob(store, id) == [store EXCEPT ![id] = 1]

NeverAlreadyRunning(running) == FALSE

\* if self._is_running: return
AlreadyRunning(running) == running

\* start: a no-op when already running; else the two jobs are added, the
\* scheduler started (BackgroundScheduler.start raises on a running
\* scheduler) and the flag set. start and stop are called by one thread, the
\* application's lifespan.
start ==
    /\ ~stopping
    /\ IF AlreadyRunning(is_running)
       THEN UNCHANGED <<is_running, job_store, start_error>>
       ELSE /\ job_store' = AddJob(AddJob(job_store, "forecast_job"), "alert_job")
            /\ IF is_running
               THEN /\ start_error' = "SchedulerAlreadyRunningError"
                    /\ UNCHANGED is_running
               ELSE /\ is_running' = TRUE
                    /\ UNCHANGED start_error
    /\ UNCHANGED <<storeVars, healthVars, pureVars, now, localVars, lastVars,
                   cached_cities, stopping, instances, calls, storage_errors, callVars>>

\* stop: a no-op when not running; else scheduler.shutdown(wait=True) is
\* entered: from here on the scheduler submits no job.
stop ==
    /\ ~stopping
    /\ IF is_running THEN stopping' = TRUE ELSE UNCHANGED stopping
    /\ UNCHANGED <<storeVars, healthVars, pureVars, now, localVars, lastVars,
                   cached_cities, is_running, job_store, start_error, instances,
                   calls, storage_errors, callVars>>

ExecutorNoWait(inst) == TRUE

\* shutdown(wait=True): the executor has no job instance left executing.
ExecutorIdle(inst) == \A j \in Jobs : inst[j] = 0

\* shutdown returns once no job is executing: the job store is emptied, then
\* stop clears the flag.
shutdown_returns ==
    /\ stopping
    /\ ExecutorIdle(instances)
    /\ stopping' = FALSE
    /\ job_store' = [j \in Jobs |-> 0]
    /\ is_running' = FALSE
    /\ UNCHANGED <<storeVars, healthVars, pureVars, now, localVars, lastVars,
                   cached_cities, start_error, instances, calls, storage_errors,
                   callVars>>

\* ------------------------------------------------------- the recurring jobs
\* max_instances=1
MaxInstances == 1

\* coalesce=True
Coalesce == TRUE

\* The run times of a job that are due when the scheduler wakes are rolled
\* into one submission when the job coalesces.
Submissions(due) == IF Coalesce THEN 1 ELSE due

InstanceLimitNever(n) == FALSE

\* The executor refuses a submission of a job that has max_instances
\* instances executing.
InstanceLimitReached(n) == n >= MaxInstances

\* The number of submissions the executor accepts out of n, with inst
\* instances of the job executing.
RECURSIVE Accepted(_, _)
Accepted(inst, n) ==
    IF n = 0 \/ InstanceLimitReached(inst) THEN 0
    ELSE 1 + Accepted(inst + 1, n - 1)

\* The scheduler wakes with `due` run times of job j due: the accepted
\* submission begins a run of the job's function, a refused one is dropped.
JobFires(j, first_pc, pcs, table) ==
    /\ is_running
    /\ ~stopping
    /\ job_store[j] > 0
    /\ calls < MaxCalls
    /\ \E due \in 1..MaxDue :
          LET n == Accepted(instances[j], Submissions(due))
          IN  IF n = 0
              THEN UNCHANGED <<pc, instances, calls, historyVars>>
              ELSE /\ instances' = [instances EXCEPT ![j] = @ + n]
                   /\ pc' = [pc EXCEPT ![j] = first_pc]
                   /\ calls' = calls + 1
                   /\ BeginRun(j, pcs, table)
    /\ UNCHANGED <<storeVars, healthVars, pureVars, now, records, idx, metadata,
                   added, result, lastVars, cached_cities, controlVars,
                   storage_errors, callVars>>

ForecastJobFires == JobFires("forecast_job", "fetch_forecasts", ForecastPcs, city_forecasts)

AlertJobFires == JobFires("alert_job", "fetch_alerts", AlertPcs, weather_alerts)

\* The job's function has returned: the executor counts the instance out.
InstancesAfterRun(t) ==
    IF t \in Jobs THEN [instances EXCEPT ![t] = @ - 1] ELSE instances

\* trigger_immediate_fetch is called: fetch_all begins with an empty list and
\* _fetch_forecasts.
trigger_immediate_fetch(t) ==
    /\ calls < MaxCalls
    /\ pc[t] = "idle"
    /\ pc' = [pc EXCEPT ![t] = "fetch_forecasts"]
    /\ calls' = calls + 1
    /\ results' = <<>>
    /\ returned' = NoReturn
    /\ BeginRun(t, ForecastPcs, city_forecasts)
    /\ UNCHANGED <<storeVars, healthVars, pureVars, now, records, idx, metadata,
                   added, result, lastVars, cached_cities, controlVars, instances,
                   storage_errors>>

\* ------------------------------------------------------------ the forecast run
CitiesOfFirst(forecasts) == IF forecasts = <<>> THEN {} ELSE {forecasts[1].city}

\* self._cached_cities = list(set(f.city for f in forecasts))
CitiesOf(forecasts) == {forecasts[i].city : i \in 1..Len(forecasts)}

\* fetch_forecasts: FetchError or ValidationError gives the failed metadata and
\* no records; else the document is parsed, the city cache replaced and the
\* quality assessed.
fetch_forecasts(t) ==
    /\ pc[t] = "fetch_forecasts"
    /\ \E rt \in RunRespTimes :
          \/ \E e \in FetchErrors \cup ForecastValidationErrors :
                /\ records' = [records EXCEPT ![t] = <<>>]
                /\ metadata' = [metadata EXCEPT ![t] =
                                   Metadata(FALSE, 0, 0, e, rt, "unavailable", FALSE)]
                /\ UNCHANGED cached_cities
          \/ \E doc \in ForecastDocs :
                LET parsed == parse_forecast_xml(doc)
                IN  /\ records' = [records EXCEPT ![t] = parsed.forecasts]
                    /\ cached_cities' = CitiesOf(parsed.forecasts)
                    /\ metadata' = [metadata EXCEPT ![t] =
                           Metadata(TRUE, parsed.total_count, parsed.valid_count, NULL, rt,
                                    assess_quality(parsed.valid_count, parsed.total_count),
                                    TRUE)]
    /\ idx' = [idx EXCEPT ![t] = 1]
    /\ added' = [added EXCEPT ![t] = 0]
    /\ pc' = [pc EXCEPT ![t] = "store_forecasts"]
    /\ UNCHANGED <<storeVars, healthVars, pureVars, now, result, historyVars,
                   lastVars, controlVars, instances, calls, storage_errors, callVars>>

\* The order of the city names (str comparison).
CityOrder == <<"Arad", "Bacau">>

\* get_available_cities: sorted(self._cached_cities)
get_available_cities == SelectSeq(CityOrder, LAMBDA c : c \in cached_cities)

\* One turn of the loop `for forecast in forecasts`.
StoreForecast(t) ==
    /\ pc[t] = "store_forecasts"
    /\ idx[t] <= Len(records[t])
    /\ \E fault \in ForecastFaults :
          LET f == records[t][idx[t]]
              ok == InsertForecastResult(city_forecasts, f, fault)
          IN  /\ insert_forecast(f, fault)
              /\ added' = [added EXCEPT ![t] = IF ok THEN @ + 1 ELSE @]
              /\ clean' = [clean EXCEPT ![t] = @ /\ ok]
              /\ faulted' = [faulted EXCEPT ![t] = @ \/ fault # "none"]
              /\ StorageFault(fault # "none")
    /\ idx' = [idx EXCEPT ![t] = @ + 1]
    /\ UNCHANGED <<weather_alerts, last_alert_call, healthVars, pureVars, now, pc,
                   records, metadata, result, before, lastVars, cached_cities,
                   controlVars, instances, calls, callVars>>

\* The result built after update_source_status returned.
RunResult(source_type, m, n) ==
    FetchResult(source_type, m.success, n, m.entries_count, m.error_message,
                m.data_quality, m.response_time_ms)

\* The result built in `except Exception`.
ExceptResult(source_type, e) ==
    FetchResult(source_type, FALSE, 0, 0, e, "unavailable", 0)

\* update_source_status with the run's metadata, then the FetchResult; when
\* the update raises, the except branch builds the result instead.
RecordHealth(t, url, next_pc) ==
    /\ idx[t] > Len(records[t])
    /\ \/ /\ update_source_status(url, metadata[t].success, metadata[t].data_quality,
                                  metadata[t].is_fresh, metadata[t].valid_entries,
                                  metadata[t].error_message,
                                  metadata[t].response_time_ms)
          /\ result' = [result EXCEPT ![t] =
                           RunResult(SourceTypeOf(url), metadata[t], added[t])]
          /\ StorageFault(FALSE)
          /\ UNCHANGED <<clean, faulted>>
       \/ /\ result' = [result EXCEPT ![t] = ExceptResult(SourceTypeOf(url), StorageError)]
          /\ clean' = [clean EXCEPT ![t] = FALSE]
          /\ faulted' = [faulted EXCEPT ![t] = TRUE]
          /\ StorageFault(TRUE)
          /\ UNCHANGED healthVars
    /\ pc' = [pc EXCEPT ![t] = next_pc]
    /\ UNCHANGED <<storeVars, pureVars, now, records, idx, metadata, added, before,
                   lastVars, cached_cities, controlVars, instances, calls, callVars>>

UpdateForecastHealth(t) ==
    /\ pc[t] = "store_forecasts"
    /\ RecordHealth(t, FORECAST_URL, "forecast_result")

\* self._last_forecast_result = result; a job returns, fetch_all appends the
\* result to its list and goes on to _fetch_alerts.
SetForecastResult(t) ==
    /\ pc[t] = "forecast_result"
    /\ last_forecast_result' = result[t]
    /\ ForgetRun(t)
    /\ IF t \in Triggers
       THEN /\ pc' = [pc EXCEPT ![t] = "fetch_alerts"]
            /\ results' = Append(results, result[t])
            /\ BeginRun(t, AlertPcs, weather_alerts)
       ELSE /\ pc' = [pc EXCEPT ![t] = "idle"]
            /\ UNCHANGED results
            /\ EndRun(t)
    /\ instances' = InstancesAfterRun(t)
    /\ UNCHANGED <<storeVars, healthVars, pureVars, now, last_alert_result,
                   last_sync_status, cached_cities, controlVars, calls,
                   storage_errors, returned>>

\* --------------------------------------------------------------- the alert run
\* fetch_alerts: as fetch_forecasts, without a city cache.
fetch_alerts(t) ==
    /\ pc[t] = "fetch_alerts"
    /\ \E rt \in RunRespTimes :
          \/ \E e \in FetchErrors \cup AlertValidationErrors :
                /\ records' = [records EXCEPT ![t] = <<>>]
                /\ metadata' = [metadata EXCEPT ![t] =
                                   Metadata(FALSE, 0, 0, e, rt, "unavailable", FALSE)]
          \/ \E feed \in AlertFeeds :
                LET parsed == parse_alert_rss(feed)
                IN  /\ records' = [records EXCEPT ![t] = parsed.alerts]
                    /\ metadata' = [metadata EXCEPT ![t] =
                           Metadata(TRUE, parsed.total_count, parsed.valid_count, NULL, rt,
                                    assess_quality(parsed.valid_count, parsed.total_count),
                                    TRUE)]
    /\ idx' = [idx EXCEPT ![t] = 1]
    /\ added' = [added EXCEPT ![t] = 0]
    /\ pc' = [pc EXCEPT ![t] = "store_alerts"]
    /\ UNCHANGED <<storeVars, healthVars, pureVars, now, result, historyVars,
                   schedulerVars>>

\* One turn of the loop `for alert in alerts`.
StoreAlert(t) ==
    /\ pc[t] = "store_alerts"
    /\ idx[t] <= Len(records[t])
    /\ \E fault \in AlertFaults :
          LET a == records[t][idx[t]]
              ok == InsertAlertResult(weather_alerts, a, fault)
          IN  /\ insert_alert(a, fault)
              /\ added' = [added EXCEPT ![t] = IF ok THEN @ + 1 ELSE @]
              /\ clean' = [clean EXCEPT ![t] = @ /\ fault = "none"]
              /\ faulted' = [faulted EXCEPT ![t] = @ \/ fault # "none"]
              /\ StorageFault(fault # "none")
    /\ idx' = [idx EXCEPT ![t] = @ + 1]
    /\ UNCHANGED <<city_forecasts, last_insert, healthVars, pureVars, now, pc,
                   records, metadata, result, before, lastVars, cached_cities,
                   controlVars, instances, calls, callVars>>

UpdateAlertHealth(t) ==
    /\ pc[t] = "store_alerts"
    /\ RecordHealth(t, ALERT_URL, "alert_result")

\* self._last_alert_result = result; a job returns, fetch_all appends the
\* result to its list and goes on to _update_sync_status.
SetAlertResult(t) ==
    /\ pc[t] = "alert_result"
    /\ last_alert_result' = result[t]
    /\ pc' = [pc EXCEPT ![t] = IF t \in Triggers THEN "sync" ELSE "idle"]
    /\ results' = IF t \in Triggers THEN Append(results, result[t]) ELSE results
    /\ ForgetRun(t)
    /\ EndRun(t)
    /\ instances' = InstancesAfterRun(t)
    /\ UNCHANGED <<storeVars, healthVars, pureVars, now, last_forecast_result,
                   last_sync_status, cached_cities, controlVars, calls,
                   storage_errors, returned>>

\* ------------------------------------------------------------- the sync status
\* A Python bool, and None, as read back from an Optional[bool].
PyBool(b) == IF b THEN "True" ELSE "False"
Truthy(v) == v = "True"

\* `x and x.success` for an Optional[FetchResult] x: None when x is None.
Healthy(r) == IF r = NoResult THEN "None" ELSE PyBool(r.success)

OverallQualityEither(forecast_ok, alert_ok) ==
    IF Truthy(forecast_ok) \/ Truthy(alert_ok) THEN "valid" ELSE "unavailable"

\* overall: valid / partial / unavailable
OverallQuality(forecast_ok, alert_ok) ==
    IF Truthy(forecast_ok) /\ Truthy(alert_ok) THEN "valid"
    ELSE IF Truthy(forecast_ok) \/ Truthy(alert_ok) THEN "partial"
    ELSE "unavailable"

\* The SyncStatus built by _update_sync_status.
SyncStatus(at) ==
    LET forecast_ok == Healthy(last_forecast_result)
        alert_ok == Healthy(last_alert_result)
    IN  [last_sync_time |-> at,
         forecast_healthy |-> forecast_ok,
         alert_healthy |-> alert_ok,
         overall_quality |-> OverallQuality(forecast_ok, alert_ok),
         cities_available |-> Len(get_available_cities),
         active_alerts |-> get_alert_count]

\* get_sync_status
get_sync_status == last_sync_status

\* _update_sync_status, then fetch_all returns its list; when get_alert_count
\* raises, the exception leaves fetch_all and trigger_immediate_fetch.
update_sync_status(t) ==
    /\ pc[t] = "sync"
    /\ \/ /\ last_sync_status' = SyncStatus(now)
          /\ returned' = Returned(FALSE, results)
          /\ StorageFault(FALSE)
       \/ /\ returned' = Returned(TRUE, <<>>)
          /\ StorageFault(TRUE)
          /\ UNCHANGED last_sync_status
    /\ results' = <<>>
    /\ pc' = [pc EXCEPT ![t] = "idle"]
    /\ UNCHANGED <<storeVars, healthVars, pureVars, now, records, idx, metadata,
                   added, result, historyVars, last_forecast_result,
                   last_alert_result, cached_cities, controlVars, instances, calls>>

Init == InitStore /\ InitHealth /\ InitQuality /\ InitFetch /\ InitParse /\ InitRuns /\ now = 0

Next ==
    \/ start
    \/ stop
    \/ shutdown_returns
    \/ ForecastJobFires
    \/ AlertJobFires
    \/ \E t \in Triggers : trigger_immediate_fetch(t)
    \/ \E t \in Threads :
          \/ fetch_forecasts(t)
          \/ StoreForecast(t)
          \/ UpdateForecastHealth(t)
          \/ SetForecastResult(t)
          \/ fetch_alerts(t)
          \/ StoreAlert(t)
          \/ UpdateAlertHealth(t)
          \/ SetAlertResult(t)
          \/ update_sync_status(t)

\* The runs are explored within one reading of the clock; the clock advances
\* in SpecForecasts, SpecAlerts and SpecHealth.
Spec == Init /\ [][Next]_vars

\* ------------------------------------- the recurring alert job over the hours
\* The clock counts hours and a run takes seconds: the clock advances between
\* the runs.
TickBetweenRuns ==
    /\ \A t \in Threads : pc[t] = "idle"
    /\ Tick

NextRetention ==
    \/ start
    \/ AlertJobFires
    \/ TickBetweenRuns
    \/ \E t \in Threads :
          \/ fetch_alerts(t)
          \/ StoreAlert(t)
          \/ UpdateAlertHealth(t)
          \/ SetAlertResult(t)

SpecRetention == Init /\ [][NextRetention]_vars

\* ---------------------------------- the recurring forecast job over the hours
NextReingest ==
    \/ start
    \/ ForecastJobFires
    \/ TickBetweenRuns
    \/ \E t \in Threads :
          \/ fetch_forecasts(t)
          \/ StoreForecast(t)
          \/ UpdateForecastHealth(t)
          \/ SetForecastResult(t)

SpecReingest == Init /\ [][NextReingest]_vars

\* ------------------------------------------------------------------ claims
RowsFor(k) == {r \in city_forecasts : r.city = k[1] /\ r.forecast_date = k[2]}

\* C1: after any sequence of insert_forecast calls the forecast table holds at
\* most one row per (city, forecast_date), and when the last call for a key
\* returned true that row carries the temperatures of that call.
C1_OneLiveRecordPerKey ==
    \A k \in Keys :
        /\ Cardinality(RowsFor(k)) <= 1
        /\ (last_insert[k].called /\ last_insert[k].ok) =>
               \E r \in RowsFor(k) : /\ r.temp_min = last_insert[k].temp_min
                                     /\ r.temp_max = last_insert[k].temp_max

\* A key re-ingested with changed temperatures, the call having returned true.
C1_Witness ==
    \E k \in Keys : /\ last_insert[k].ok
                    /\ last_insert[k].changed
                    /\ Cardinality(RowsFor(k)) = 1

\* C2: no two rows of the alert table share a content_hash, whatever the
\* sequence of insert_alert and deactivate_old_alerts calls.
C2_FingerprintUnique ==
    \A r1, r2 \in weather_alerts : r1.content_hash = r2.content_hash => r1 = r2

\* An entry re-fetched while its fingerprint is stored, with a deactivated row present.
C2_Witness ==
    /\ last_alert_call.called
    /\ last_alert_call.known
    /\ \E r \in weather_alerts : r.is_active = 0
    /\ Cardinality(weather_alerts) = 2

HashesOf(recs) == {recs[i].content_hash : i \in 1..Len(recs)}
StoredHashes(table) == {r.content_hash : r \in table}
NewFingerprints(recs, table) == Cardinality(HashesOf(recs) \ StoredHashes(table))

KeyOf(r) == <<r.city, r.forecast_date>>
KeysOf(recs) == {KeyOf(recs[i]) : i \in 1..Len(recs)}
LastFor(recs, k) ==
    recs[CHOOSE i \in 1..Len(recs) :
            /\ KeyOf(recs[i]) = k
            /\ \A j \in (i + 1)..Len(recs) : KeyOf(recs[j]) # k]
Reading(r) == <<r.city, r.forecast_date, r.temp_min, r.temp_max>>

\* C4 as stated: after a successful forecast fetch the live rows are exactly
\* the valid records of the fetched document.
C4_StoreEqualsDocument ==
    \A t \in Threads :
        (pc[t] = "forecast_result" /\ metadata[t].success /\ clean[t]) =>
            {Reading(r) : r \in city_forecasts} =
                {Reading(LastFor(records[t], k)) : k \in KeysOf(records[t])}

\* C4, amended: after a successful forecast fetch (no storage error, no other
\* forecast run overlapping) every (city, forecast_date) of a valid record of
\* the document has exactly one live row, carrying the document's last record
\* for that key, and the rows of every other key are those stored before the
\* run, unchanged: keys absent from the document stay live.
C4_DocumentKeysReplacedOthersKept ==
    \A t \in Threads :
        (pc[t] = "forecast_result" /\ metadata[t].success /\ clean[t]) =>
            /\ \A k \in KeysOf(records[t]) :
                  \E r \in city_forecasts :
                      /\ RowsFor(k) = {r}
                      /\ Reading(r) = Reading(LastFor(records[t], k))
            /\ {r \in city_forecasts : KeyOf(r) \notin KeysOf(records[t])} =
                   {r \in before[t] : KeyOf(r) \notin KeysOf(records[t])}

\* A run that replaced one key's row with changed temperatures while a row
\* stored earlier under a key absent from its document is still live.
C4_Witness ==
    \E t \in Threads :
        /\ pc[t] = "forecast_result" /\ metadata[t].success /\ clean[t]
        /\ \E r \in city_forecasts : KeyOf(r) \notin KeysOf(records[t])
        /\ \E r \in before[t] :
              /\ KeyOf(r) \in KeysOf(records[t])
              /\ Reading(r) # Reading(LastFor(records[t], KeyOf(r)))

\* C5: the quality assessor's case table over 0 <= valid <= total; the result
\* is one of unavailable, invalid, valid, partial and never stale.
C5_QualityTable ==
    quality_out # "unassessed" =>
        /\ (total_in = 0 => quality_out = "unavailable")
        /\ (valid_in = 0 /\ total_in > 0 => quality_out = "invalid")
        /\ (valid_in = total_in /\ total_in > 0 => quality_out = "valid")
        /\ (0 < valid_in /\ valid_in < total_in /\ 2 * valid_in >= total_in
               => quality_out = "partial")
        /\ (2 * valid_in < total_in => quality_out = "invalid")
        /\ quality_out # "stale"

\* Exactly half of the entries valid: the boundary of partial.
C5_Witness ==
    /\ quality_out = "partial"
    /\ 2 * valid_in = total_in

RECURSIVE CountSuccess(_)
CountSuccess(h) ==
    IF h = <<>> THEN 0
    ELSE (IF h[Len(h)].success THEN 1 ELSE 0) + CountSuccess(SubSeq(h, 1, Len(h) - 1))

\* C6: every health update adds 1 to fetch_count and 1 to exactly one of
\* success_count and error_count, so fetch_count = success_count + error_count
\* in every row.
C6_CountersAddUp ==
    /\ \A r \in source_status :
          /\ r.fetch_count = r.success_count + r.error_count
          /\ r.fetch_count = Len(attempts[r.source_url])
          /\ r.success_count = CountSuccess(attempts[r.source_url])
    /\ \A url \in Sources : attempts[url] # <<>> => HasStatusRow(source_status, url)

C6_Witness ==
    \E r \in source_status : /\ r.success_count >= 1
                             /\ r.error_count >= 2

RECURSIVE TrailingFailures(_)
TrailingFailures(h) ==
    IF h = <<>> \/ h[Len(h)].success THEN 0
    ELSE 1 + TrailingFailures(SubSeq(h, 1, Len(h) - 1))

\* C7: the consecutive-failure streak is the number of failed attempts since
\* the most recent successful one (or since the row was created).
C7_StreakIsTrailingFailures ==
    \A r \in source_status :
        r.consecutive_failures = TrailingFailures(attempts[r.source_url])

\* A failure, a success, a failure: two failures in all, a streak of one.
C7_Witness ==
    \E r \in source_status :
        /\ r.error_count = 2
        /\ r.success_count = 1
        /\ r.consecutive_failures = 1

\* C8 as stated: the reliability read is exactly success_count / fetch_count x 100.
C8_ReliabilityExact ==
    \A v \in get_system_status :
        v.reliability_percent * v.row.fetch_count = v.row.success_count * 1000

\* C8, amended: the reliability read is success_count / fetch_count x 100 rounded
\* to one decimal place (here in tenths of a percent), derived from the stored
\* counters, between 0 and 100, and 50.0 after one failure then one success.
C8_ReliabilityRounded ==
    \A v \in get_system_status :
        LET p == v.reliability_percent
            f == v.row.fetch_count
            s == v.row.success_count
        IN  /\ f > 0
            /\ 2 * f * p - f <= 2000 * s
            /\ 2000 * s < 2 * f * p + f
            /\ 0 <= p /\ p <= 1000
            /\ "reliability_percent" \notin DOMAIN v.row
            /\ (/\ Len(attempts[v.row.source_url]) = 2
                /\ ~attempts[v.row.source_url][1].success
                /\ attempts[v.row.source_url][2].success) => p = 500

\* One source reads 66.7 for two successes in three fetches.
C8_Witness ==
    \E v \in get_system_status :
        /\ v.row.fetch_count = 3
        /\ v.row.success_count = 2
        /\ ~attempts[v.row.source_url][1].success
        /\ v.reliability_percent = 667

RECURSIVE SumRt(_)
SumRt(h) == IF h = <<>> THEN 0 ELSE h[Len(h)].rt + SumRt(SubSeq(h, 1, Len(h) - 1))

RECURSIVE MinRt(_)
MinRt(h) ==
    IF Len(h) = 1 THEN h[1].rt
    ELSE LET m == MinRt(SubSeq(h, 1, Len(h) - 1))
         IN  IF h[Len(h)].rt < m THEN h[Len(h)].rt ELSE m

RECURSIVE TruncatedMean(_)
TruncatedMean(h) ==
    IF Len(h) = 1 THEN h[1].rt
    ELSE (TruncatedMean(SubSeq(h, 1, Len(h) - 1)) * (Len(h) - 1) + h[Len(h)].rt)
             \div Len(h)

\* C9 as stated: the stored average is the mean of all samples, rounded down.
C9_AvgIsFloorOfMean ==
    \A r \in source_status :
        LET h == attempts[r.source_url]
        IN  r.avg_response_time_ms = SumRt(h) \div Len(h)

\* C9, amended: the stored average follows a_1 = s_1,
\* a_k = floor((a_(k-1) * (k-1) + s_k) / k); it is at most the mean of all
\* samples rounded down and at least the smallest sample.
C9_AvgIsTruncatedRecurrence ==
    \A r \in source_status :
        LET h == attempts[r.source_url]
        IN  /\ r.avg_response_time_ms = TruncatedMean(h)
            /\ r.avg_response_time_ms <= SumRt(h) \div Len(h)
            /\ r.avg_response_time_ms >= MinRt(h)
            /\ (Len(h) = 1 => r.avg_response_time_ms = h[1].rt)
            /\ r.last_response_time_ms = h[Len(h)].rt

\* Three samples whose stored average is below their rounded-down mean.
C9_Witness ==
    \E r \in source_status :
        /\ r.fetch_count = 3
        /\ r.avg_response_time_ms < SumRt(attempts[r.source_url]) \div 3

\* C10: a failed attempt keeps last_success_at and success_count, sets status
\* error and stores the call's error text; a successful one sets
\* last_success_at to the attempt time, status ok and clears the error text;
\* both set last_fetch_at to the attempt time.
C10_SuccessAndFailureFrames ==
    [][\A url \in Sources :
          Len(attempts'[url]) = Len(attempts[url]) + 1 =>
              LET had == HasStatusRow(source_status, url)
                  old_success_at ==
                      IF had THEN StatusRow(source_status, url).last_success_at ELSE NoTime
                  old_success_count ==
                      IF had THEN StatusRow(source_status, url).success_count ELSE 0
                  new == StatusRow(source_status', url)
                  call == last_health_call'
              IN  /\ call.source_url = url
                  /\ new.last_fetch_at = now
                  /\ call.success =>
                        /\ new.last_success_at = now
                        /\ new.status = "ok"
                        /\ new.last_error = NULL
                  /\ ~call.success =>
                        /\ new.last_success_at = old_success_at
                        /\ new.success_count = old_success_count
                        /\ new.status = "error"
                        /\ new.last_error = call.error_message
                        /\ call.error_message \in ErrTexts]_vars

\* A failure recorded after an earlier success: last_success_at stays behind
\* last_fetch_at and the error text is stored.
C10_Witness ==
    \E r \in source_status :
        /\ r.status = "error"
        /\ r.last_success_at # NoTime
        /\ r.last_success_at < r.last_fetch_at
        /\ r.last_error \in ErrTexts

\* --------------------------------------------------- claims about the runs
StorePc(url) == IF url = FORECAST_URL THEN "store_forecasts" ELSE "store_alerts"
ResultPc(url) == IF url = FORECAST_URL THEN "forecast_result" ELSE "alert_result"

\* Thread t passes from the loop over the records to the built result: the
\* step that calls update_source_status for the source url.
HealthStep(t, url) == pc[t] = StorePc(url) /\ pc'[t] = ResultPc(url)

FailedAttempt(m) == [success |-> FALSE, rt |-> m.response_time_ms]
SucceededAttempt(m) == [success |-> TRUE, rt |-> m.response_time_ms]

\* C11: a run whose fetch failed or whose document failed validation ends
\* with success = false, quality unavailable, entries_added = 0,
\* total_entries = 0 and an error text, has written and removed no record, and
\* has updated the source's health once, as a failure.
C11_FailedFetchOutcome ==
    [][\A t \in Threads, url \in Sources :
          (HealthStep(t, url) /\ ~metadata[t].success) =>
              /\ ~result'[t].success
              /\ result'[t].data_quality = "unavailable"
              /\ result'[t].entries_added = 0
              /\ result'[t].total_entries = 0
              /\ result'[t].error_message # NULL
              /\ records[t] = <<>>
              /\ added[t] = 0
              /\ UNCHANGED <<city_forecasts, weather_alerts>>
              /\ attempts'[url] = Append(attempts[url], FailedAttempt(metadata[t]))]_vars

\* C11 where the health update did not raise.
C11_FailedFetchOutcomeHealthStored ==
    [][\A t \in Threads, url \in Sources :
          (HealthStep(t, url) /\ ~metadata[t].success /\ ~faulted'[t]) =>
              /\ ~result'[t].success
              /\ result'[t].data_quality = "unavailable"
              /\ result'[t].entries_added = 0
              /\ result'[t].total_entries = 0
              /\ result'[t].error_message \in FetchErrors \cup ForecastValidationErrors
                                              \cup AlertValidationErrors
              /\ records[t] = <<>>
              /\ added[t] = 0
              /\ UNCHANGED <<city_forecasts, weather_alerts>>
              /\ attempts'[url] = Append(attempts[url], FailedAttempt(metadata[t]))]_vars

Qualities == {"valid", "partial", "invalid", "unavailable"}

WellFormed(r) ==
    /\ r # NoResult
    /\ r.source_type \in {"forecast", "alert"}
    /\ r.success \in BOOLEAN
    /\ r.data_quality \in Qualities
    /\ r.entries_added \in Nat
    /\ r.total_entries \in Nat
    /\ (~r.success => r.error_message # NULL)

FetchCount(table, url) ==
    IF HasStatusRow(table, url) THEN StatusRow(table, url).fetch_count ELSE 0

\* C12: every run of a source's ingestion, on every path (also when a
\* Database call raises or fails), returns a well-formed outcome and leaves
\* the source's health record with fetch_count one higher than before.
C12_EveryRunUpdatesHealth ==
    [][\A t \in Threads, url \in Sources :
          HealthStep(t, url) =>
              /\ WellFormed(result'[t])
              /\ result'[t].source_type = SourceTypeOf(url)
              /\ FetchCount(source_status', url) = FetchCount(source_status, url) + 1]_vars

\* C12, the part that holds: every run returns a well-formed outcome, and
\* every run in which update_source_status did not raise (a failed fetch, a
\* failed validation, a failed insert included) leaves fetch_count one higher.
C12_OutcomeAlwaysHealthUnlessUpdateRaises ==
    [][\A t \in Threads, url \in Sources :
          HealthStep(t, url) =>
              /\ WellFormed(result'[t])
              /\ result'[t].source_type = SourceTypeOf(url)
              /\ IF result'[t].error_message = StorageError
                 THEN UNCHANGED source_status
                 ELSE FetchCount(source_status', url) = FetchCount(source_status, url) + 1]_vars

NoRunInProgress == \A t \in Threads : pc[t] = "idle"

\* C13: once a run of a source has completed (recurring forecast job,
\* recurring alert job or trigger-now) and no run is in progress,
\* get_sync_status returns a status whose forecast_healthy and alert_healthy
\* equal the success flags of the most recent outcome of each source.
C13_SyncStatusFollowsEveryRun ==
    NoRunInProgress =>
        /\ last_forecast_result # NoResult =>
              /\ get_sync_status # NoSyncStatus
              /\ get_sync_status.forecast_healthy = PyBool(last_forecast_result.success)
        /\ last_alert_result # NoResult =>
              /\ get_sync_status # NoSyncStatus
              /\ get_sync_status.alert_healthy = PyBool(last_alert_result.success)

\* Thread t computes the SyncStatus and fetch_all returns.
SyncStep(t) == pc[t] = "sync" /\ pc'[t] = "idle" /\ ~returned'.raised

\* C14: whenever SyncStatus is computed, both sources have a last outcome,
\* forecast_healthy and alert_healthy are booleans equal to the success flags
\* of those outcomes, and overall_quality is valid exactly when both
\* succeeded, partial exactly when one did, unavailable exactly when neither.
C14_OverallQuality ==
    [][\A t \in Threads :
          SyncStep(t) =>
              /\ last_forecast_result # NoResult
              /\ last_alert_result # NoResult
              /\ LET st == last_sync_status'
                     f == last_forecast_result.success
                     a == last_alert_result.success
                 IN  /\ st.forecast_healthy \in {"True", "False"}
                     /\ st.alert_healthy \in {"True", "False"}
                     /\ st.forecast_healthy = PyBool(f)
                     /\ st.alert_healthy = PyBool(a)
                     /\ st.overall_quality \in {"valid", "partial", "unavailable"}
                     /\ st.overall_quality = "valid" <=> (f /\ a)
                     /\ st.overall_quality = "partial" <=> (f # a)
                     /\ st.overall_quality = "unavailable" <=> (~f /\ ~a)]_vars

\* A computed status with the forecast source failed and the alert source
\* succeeded.
C14_Witness ==
    /\ get_sync_status # NoSyncStatus
    /\ get_sync_status.overall_quality = "partial"
    /\ get_sync_status.forecast_healthy = "False"
    /\ get_sync_status.alert_healthy = "True"

\* C15: every call of trigger_immediate_fetch that has ended returned a list
\* of exactly two outcomes, the forecast outcome first and the alert outcome
\* second.
C15_AlwaysTwoOutcomes ==
    returned.called =>
        /\ ~returned.raised
        /\ Len(returned.results) = 2
        /\ returned.results[1].source_type = "forecast"
        /\ returned.results[2].source_type = "alert"

\* C16: start is idempotent: no call of start fails on a scheduler that is
\* already running, while is_running is true there is exactly one forecast
\* job and one alert job, and no step that keeps is_running true changes the
\* jobs.
C16_StartIdempotent ==
    /\ [](start_error = NULL)
    /\ [](is_running => \A j \in Jobs : job_store[j] = 1)
    /\ [][is_running /\ is_running' => job_store' = job_store]_vars

\* The scheduler was started after an immediate fetch and holds its two jobs.
C16_Witness ==
    /\ is_running
    /\ ~stopping
    /\ returned.called
    /\ \A j \in Jobs : job_store[j] = 1

\* C17: each recurring job has at most one instance executing, and exactly
\* one while its run is in progress; no step adds an instance to a job whose
\* run is in progress (the tick is dropped), and no step, whatever the number
\* of run times due, adds more than one instance (one catch-up run).
C17_OneInstancePerJob ==
    /\ [](\A j \in Jobs : /\ instances[j] <= 1
                           /\ instances[j] = 1 <=> pc[j] # "idle")
    /\ [][\A j \in Jobs :
            /\ pc[j] # "idle" => instances'[j] <= instances[j]
            /\ instances'[j] <= instances[j] + 1]_vars

\* Both recurring jobs have a run in progress.
C17_Witness ==
    /\ is_running
    /\ \A j \in Jobs : instances[j] = 1 /\ pc[j] # "idle"

\* C18: stop waits for the scheduled runs in flight and does not cancel them:
\* while is_running is false no scheduled run is in progress; is_running is
\* cleared only by a stop that found the executor idle; a scheduled run
\* begins only on a started scheduler that is not shutting down, and ends
\* only by storing its outcome; entering and leaving stop changes no run and
\* no stored data; and nothing but start changes a stopped scheduler.
C18_StopWaitsForRuns ==
    /\ [](~is_running => ~stopping /\ \A j \in Jobs : pc[j] = "idle" /\ instances[j] = 0)
    /\ [][/\ is_running /\ ~is_running' => stopping /\ ExecutorIdle(instances)
          /\ \A j \in Jobs :
                /\ pc[j] = "idle" /\ pc'[j] # "idle" => is_running /\ ~stopping
                /\ pc[j] # "idle" /\ pc'[j] = "idle" =>
                       pc[j] \in {"forecast_result", "alert_result"}
          /\ stopping' # stopping \/ is_running' # is_running =>
                UNCHANGED <<storeVars, healthVars, localVars, lastVars, instances>>
          /\ ~is_running /\ ~is_running' => UNCHANGED controlVars]_vars

\* stop has been called and waits for a scheduled run that is about to store
\* its outcome.
C18_Witness ==
    /\ stopping
    /\ is_running
    /\ \E j \in Jobs : pc[j] \in {"forecast_result", "alert_result"} /\ instances[j] = 1

\* The place of a city name in the order of the names.
Rank(c) == CHOOSE i \in 1..Len(CityOrder) : CityOrder[i] = c

\* The sequence list is sorted, without duplicates, and holds exactly the
\* cities of the records.
SortedDistinctCitiesOf(list, recs) ==
    /\ \A i, j \in 1..Len(list) : i < j => Rank(list[i]) < Rank(list[j])
    /\ {list[i] : i \in 1..Len(list)} = {recs[i].city : i \in 1..Len(recs)}

\* Thread t fetches the forecast document; the fetch succeeds or fails.
ForecastFetchStep(t) == pc[t] = "fetch_forecasts" /\ pc'[t] = "store_forecasts"

\* C19: get_available_cities changes only in a successful forecast fetch,
\* after which it is the sorted list of the distinct cities of the valid
\* records of that fetch; a failed forecast fetch, every step of an alert run
\* and every change of the stored forecasts leave it unchanged.
C19_CitiesOfLastSuccessfulFetch ==
    [][/\ \A t \in Threads :
             ForecastFetchStep(t) =>
                 IF metadata'[t].success
                 THEN SortedDistinctCitiesOf(get_available_cities', records'[t])
                 ELSE get_available_cities' = get_available_cities
       /\ (\A t \in Threads : ~ForecastFetchStep(t)) =>
             get_available_cities' = get_available_cities]_vars

\* Both cities are stored, and the list holds only the city of a later
\* successful fetch.
C19_Witness ==
    /\ get_available_cities = <<"Bacau">>
    /\ \E r \in city_forecasts : r.city = "Arad"
    /\ \E r \in city_forecasts : r.city = "Bacau"

SuccessCount(table, url) ==
    IF HasStatusRow(table, url) THEN StatusRow(table, url).success_count ELSE 0

\* The outcome and the health record of a forecast run over a successfully
\* fetched document, as the step that updates the health leaves them.
ForecastRunCounted(t) ==
    /\ result'[t].success
    /\ result'[t].total_entries = metadata[t].entries_count
    /\ result'[t].entries_added = metadata[t].valid_entries
    /\ result'[t].entries_added = Len(records[t])
    /\ result'[t].data_quality =
           assess_quality(metadata[t].valid_entries, metadata[t].entries_count)
    /\ FetchCount(source_status', FORECAST_URL) =
           FetchCount(source_status, FORECAST_URL) + 1
    /\ SuccessCount(source_status', FORECAST_URL) =
           SuccessCount(source_status, FORECAST_URL) + 1

\* C20: a forecast run over a successfully fetched, well-formed document
\* with T counted entries of which V are parseable ends with success = true,
\* total_entries = T, entries_added = V and quality = assess(V, T), and adds
\* exactly 1 to fetch_count and 1 to success_count of the forecast source.
C20_SuccessfulForecastRun ==
    [][\A t \in Threads :
          (HealthStep(t, FORECAST_URL) /\ metadata[t].success) =>
              ForecastRunCounted(t)]_vars

\* C20 for the runs in which no Database call raised or failed.
C20_SuccessfulForecastRunStored ==
    [][\A t \in Threads :
          (HealthStep(t, FORECAST_URL) /\ metadata[t].success /\ ~faulted'[t]) =>
              ForecastRunCounted(t)]_vars

\* ------------------------------------------ claims about the fetch client
ErrorCount(table, url) ==
    IF HasStatusRow(table, url) THEN StatusRow(table, url).error_count ELSE 0

Streak(table, url) ==
    IF HasStatusRow(table, url) THEN StatusRow(table, url).consecutive_failures ELSE 0

\* The run stores nothing and counts one failed attempt for the source.
OneFailedAttempt(t, url) ==
    /\ records[t] = <<>>
    /\ UNCHANGED <<city_forecasts, weather_alerts>>
    /\ ~result'[t].success
    /\ FetchCount(source_status', url) = FetchCount(source_status, url) + 1
    /\ ErrorCount(source_status', url) = ErrorCount(source_status, url) + 1
    /\ Streak(source_status', url) = Streak(source_status, url) + 1

\* C21: a run whose fetch used up its retries is one logical attempt: it
\* surfaces one fetch failure, persists no record, and adds exactly 1 to the
\* source's fetch_count, error_count and consecutive-failure streak.
C21_ExhaustedFetchOneAttempt ==
    [][\A t \in Threads, url \in Sources :
          (HealthStep(t, url) /\ metadata[t].error_message \in FetchErrors) =>
              OneFailedAttempt(t, url)]_vars

\* C21 for the runs in which update_source_status did not raise.
C21_ExhaustedFetchOneAttemptStored ==
    [][\A t \in Threads, url \in Sources :
          (HealthStep(t, url) /\ metadata[t].error_message \in FetchErrors
                               /\ ~faulted'[t]) =>
              OneFailedAttempt(t, url)]_vars

\* C21, the fetch: however many requests a call of _fetch_raw sent, it ends
\* once, with the content or with one FetchError.
C21_OneOutcomePerFetch ==
    /\ [](fetch_pc = "returned" <=> fetch_result # NULL)
    /\ [](fetch_result \in {NULL, Payload} \cup FetchFailures)
    /\ [][fetch_result # NULL /\ fetch_result' # NULL =>
             fetch_result' = fetch_result /\ requests_made' = requests_made]_vars

\* One more request of the same call that is not the first request to a
\* redirect target.
IsRetryStep ==
    /\ requests_made >= 1
    /\ requests_made' = requests_made + 1
    /\ last_response # "302"

\* The statuses 429 and 5xx of this model, and the transient network errors.
RetryEligible == {"429", "500", "503"} \cup NetworkErrors

\* C22: a single fetch sends at most 1 + MAX_RETRIES requests and ends with
\* the content or a classified fetch failure; a request is retried only after
\* a 429 or 5xx response or a network error; a 404 response ends the fetch at
\* once as an HTTP error.
C22_BoundedRetries ==
    /\ [](requests_made <= 1 + MAX_RETRIES)
    /\ [](fetch_pc = "returned" => fetch_result \in {Payload} \cup FetchFailures)
    /\ [][IsRetryStep => last_response \in RetryEligible]_vars
    /\ [][requests_made' = requests_made + 1 /\ last_response' = "404" =>
             fetch_pc' = "returned" /\ fetch_result' = HttpError]_vars

\* C22 with the bound counted for each URL of the redirect chain.
C22_BoundedRetriesPerRedirect ==
    /\ [](requests_made <= (1 + MAX_RETRIES) * (1 + redirects))
    /\ [](redirects <= MaxRedirects)
    /\ [](fetch_pc = "returned" => fetch_result \in {Payload} \cup FetchFailures)
    /\ [][IsRetryStep => last_response \in RetryEligible]_vars
    /\ [][requests_made' = requests_made + 1 /\ last_response' = "404" =>
             fetch_pc' = "returned" /\ fetch_result' = HttpError]_vars

\* ------------------------------------------------ claims about retention
\* The alert source's health record is written at the end of each alert run.
LastAlertRunAt == StatusRow(source_status, ALERT_URL).last_fetch_at

\* C23: the running pipeline deactivates the alerts stored for longer than
\* the retention horizon: once an alert run has completed, every alert that
\* was older than the horizon at that run is inactive, and its row is kept.
C23_OldAlertsDeactivated ==
    HasStatusRow(source_status, ALERT_URL) =>
        \A r \in weather_alerts :
            r.fetched_at < LastAlertRunAt - MaxHours => r.is_active = 0

\* C23, what the runs do instead: no step of the pipeline changes or removes
\* a stored alert, so an active alert stays active.
C23_NoStepDeactivates ==
    [][\A r \in weather_alerts : r \in weather_alerts']_vars

\* ---------------------------------------------- claims about concurrent runs
\* C24: under every interleaving of the runs the storage writes are
\* serialized: a source has one health record, whose fetch_count is the number
\* of completed health updates of the source; a key has at most one forecast
\* row; and a forecast insert that returns true leaves exactly the inserted
\* row under its key.
C24_WritesSerialized ==
    /\ [](\A url \in Sources :
            /\ Cardinality({r \in source_status : r.source_url = url}) <= 1
            /\ FetchCount(source_status, url) = Len(attempts[url]))
    /\ [](\A k \in Keys : Cardinality(RowsFor(k)) <= 1)
    /\ [][\A t \in Threads :
            (/\ pc[t] = "store_forecasts"
             /\ idx'[t] = idx[t] + 1
             /\ added'[t] = added[t] + 1) =>
                LET f == records[t][idx[t]]
                IN  \E r \in city_forecasts' :
                       /\ r.content_hash = f.content_hash
                       /\ {q \in city_forecasts' : q.city = f.city
                                                   /\ q.forecast_date = f.forecast_date}
                             = {r}]_vars

\* The recurring forecast job and a trigger-now call overlap, and each has
\* completed its health update.
C24_Witness ==
    /\ pc["forecast_job"] = "forecast_result"
    /\ pc["trigger"] = "forecast_result"
    /\ result["forecast_job"].success
    /\ result["trigger"].success
    /\ FetchCount(source_status, FORECAST_URL) = 2

\* Thread t takes a step of its run.
ThreadStep(t) == pc'[t] # pc[t] \/ idx'[t] # idx[t]

\* The health record of a source, with the history of its updates.
HealthOf(table, url) == {r \in table : r.source_url = url}

\* C25: runs for different sources are independent under every interleaving:
\* no step of a forecast run changes the alert rows, the alert source's
\* health record or the last alert outcome, and no step of an alert run
\* changes the forecast rows, the forecast source's health record, the last
\* forecast outcome or the cached city list.
C25_SourcesIndependent ==
    [][\A t \in Threads :
          /\ (pc[t] \in ForecastPcs /\ ThreadStep(t)) =>
                 /\ weather_alerts' = weather_alerts
                 /\ HealthOf(source_status', ALERT_URL) = HealthOf(source_status, ALERT_URL)
                 /\ attempts'[ALERT_URL] = attempts[ALERT_URL]
                 /\ last_alert_result' = last_alert_result
          /\ (pc[t] \in AlertPcs /\ ThreadStep(t)) =>
                 /\ city_forecasts' = city_forecasts
                 /\ HealthOf(source_status', FORECAST_URL) = HealthOf(source_status, FORECAST_URL)
                 /\ attempts'[FORECAST_URL] = attempts[FORECAST_URL]
                 /\ last_forecast_result' = last_forecast_result
                 /\ cached_cities' = cached_cities]_vars

\* A forecast run and an alert run overlap; each has stored records and
\* updated the health record of its source.
C25_Witness ==
    /\ pc["forecast_job"] = "forecast_result"
    /\ pc["alert_job"] = "alert_result"
    /\ result["forecast_job"].entries_added > 0
    /\ result["alert_job"].entries_added > 0
    /\ FetchCount(source_status, FORECAST_URL) = 1
    /\ FetchCount(source_status, ALERT_URL) = 1

\* ------------------------------------------------- claims about re-ingestion
\* The rows of the table stored under the key of record f.
RowsOfKey(table, f) ==
    {r \in table : r.city = f.city /\ r.forecast_date = f.forecast_date}

\* Every record of the run was stored, with the same fingerprint, when the
\* run began.
Reingested(t) ==
    /\ records[t] # <<>>
    /\ \A i \in 1..Len(records[t]) :
          \E r \in RowsOfKey(before[t], records[t][i]) :
             r.content_hash = records[t][i].content_hash

\* C26: replace-always: a forecast run whose Database calls succeed reports
\* entries_added = the number of valid entries, also when every entry was
\* stored with the same fingerprint before, and leaves under the key of each
\* entry one row, written by this run (retrieval timestamp = the time of the
\* run); no stored fingerprint short-circuits the write.
C26_ReplaceAlways ==
    \A t \in Threads :
        (pc[t] = "forecast_result" /\ ~faulted[t]) =>
            /\ result[t].entries_added = Len(records[t])
            /\ result[t].entries_added = metadata[t].valid_entries
            /\ \A i \in 1..Len(records[t]) :
                  \E r \in city_forecasts :
                     /\ RowsOfKey(city_forecasts, records[t][i]) = {r}
                     /\ r.fetched_at = now

\* A document re-ingested at a later hour with every fingerprint unchanged:
\* all its entries are counted as added and the rows carry the new timestamp.
C26_Witness ==
    \E t \in Threads :
        /\ pc[t] = "forecast_result"
        /\ ~faulted[t]
        /\ Reingested(t)
        /\ \A r \in before[t] : r.fetched_at < now
        /\ result[t].entries_added = Len(records[t])
        /\ Len(records[t]) = 2
        /\ \A r \in city_forecasts : r.fetched_at = now

\* -------------------------------------------------- claims about the parsers
\* The entry counts towards total: a per-day entry under a named location, or
\* any feed item.
IsCounted(kind, e) == kind = "alert" \/ e.nume # ""

\* The entry yields a record: all required fields present and the
\* temperatures integers, or the item's extraction succeeding.
IsParseable(kind, e) ==
    IF kind = "alert" THEN e.extracted
    ELSE /\ e.nume # ""
         /\ e.data # ""
         /\ e.temp_min \in {ToString(n) : n \in Temps}
         /\ e.temp_max \in {ToString(n) : n \in Temps}

\* The record is the one made from the entry.
RecordOf(kind, e, rec) ==
    IF kind = "alert" THEN rec.title = e.title /\ rec.link = e.link
    ELSE /\ rec.city = e.nume
         /\ rec.forecast_date = e.data
         /\ ToString(rec.temp_min) = e.temp_min
         /\ ToString(rec.temp_max) = e.temp_max

\* C27: both parsers return 0 <= valid <= total and a record list of length
\* valid; total is the number of per-day entries under a named location (of
\* feed items), valid the number of those with every required field present
\* and integer (extracted without error), and the list holds the records of
\* exactly those entries, in document order: an entry that is skipped does
\* not abort the entries after it, and entries under a nameless location
\* count for nothing.
C27_ParserCounts ==
    parsed_out.done =>
        LET kind == raw_in.kind
            doc == raw_in.entries
            good == SelectSeq(doc, LAMBDA e : IsParseable(kind, e))
        IN  /\ 0 <= parsed_out.valid_count
            /\ parsed_out.valid_count <= parsed_out.total_count
            /\ Len(parsed_out.records) = parsed_out.valid_count
            /\ parsed_out.total_count =
                   Cardinality({i \in 1..Len(doc) : IsCounted(kind, doc[i])})
            /\ parsed_out.valid_count = Len(good)
            /\ \A i \in 1..Len(good) : RecordOf(kind, good[i], parsed_out.records[i])

\* A forecast document with an entry under a nameless location, then an
\* entry with a non-integer temperature, then a well-formed entry.
C27_Witness ==
    /\ parsed_out.done
    /\ raw_in.kind = "forecast"
    /\ Len(raw_in.entries) = 3
    /\ raw_in.entries[1].nume = ""
    /\ raw_in.entries[2].nume # "" /\ raw_in.entries[2].temp_min = "x"
    /\ IsParseable("forecast", raw_in.entries[3])
    /\ parsed_out.total_count = 2
    /\ parsed_out.valid_count = 1
    /\ Len(parsed_out.records) = 1

\* ------------------------------- claims about health and the last outcome
\* The source has run at least once, and its health record agrees with the
\* outcome kept in memory: status 'ok' exactly when the outcome succeeded, and
\* the same quality.
AgreesWithOutcome(url, outcome) ==
    outcome.source_type # "none" =>
        \E r \in HealthOf(source_status, url) :
            /\ (r.status = "ok") <=> outcome.success
            /\ r.data_quality = outcome.data_quality

HealthAgrees ==
    /\ AgreesWithOutcome(FORECAST_URL, last_forecast_result)
    /\ AgreesWithOutcome(ALERT_URL, last_alert_result)

\* C28: whenever no run is in progress, for every source that has run at
\* least once the health record agrees with the last outcome returned by
\* get_last_results (status 'ok' iff the outcome succeeded, same quality),
\* also after overlapping runs of the same source.
C28_HealthAgreesWithLastOutcome == NoRunInProgress => HealthAgrees

\* C28, where no Database call has raised: the recurring job and a
\* trigger-now run of the same source overlap, one updates the health record
\* last and the other assigns _last_*_result last.
C28_HealthAgreesWithoutStorageErrors ==
    (NoRunInProgress /\ storage_errors = 0) => HealthAgrees

\* C28, for a run that no run of the same source overlapped and in which
\* update_source_status did not raise: when it assigns _last_*_result, the
\* health record of its source agrees with it.
C28_SoleRunAgrees ==
    [][\A t \in Threads :
          /\ (pc[t] = "forecast_result" /\ pc'[t] # pc[t] /\ clean[t]) =>
                 AgreesWithOutcome(FORECAST_URL, last_forecast_result)'
          /\ (pc[t] = "alert_result" /\ pc'[t] # pc[t] /\ clean[t]) =>
                 AgreesWithOutcome(ALERT_URL, last_alert_result)']_vars

\* ------------------------------------------ claims about a failed insert
\* The step is a call of insert_forecast for key k that returned False.
InsertFailedStep(k) == last_insert'[k] # last_insert[k] /\ ~last_insert'[k].ok

\* C29: insert_forecast is all-or-nothing: when it returns False because of
\* a storage error, the forecast store is unchanged, so the record live for
\* that (city, forecast date) key before the call is still present.
C29_FailedInsertChangesNothing ==
    [][\A k \in Keys : InsertFailedStep(k) => city_forecasts' = city_forecasts]_vars

\* What a failed insert_forecast does keep: it adds no row, and the rows of
\* every other key are as before; only rows of its own key can be gone.
C29_FailedInsertOnlyDeletesOwnKey ==
    [][\A k \in Keys :
          InsertFailedStep(k) =>
              /\ city_forecasts' \subseteq city_forecasts
              /\ \A r \in city_forecasts \ city_forecasts' :
                     <<r.city, r.forecast_date>> = k]_vars

\* --------------------------------------------- claims about deactivation
\* Row r is in the table after the step, unchanged or with only its active
\* flag cleared.
KeptOrDeactivated(r) ==
    \/ r \in weather_alerts'
    \/ r.is_active = 1 /\ [r EXCEPT !.is_active = 0] \in weather_alerts'

\* The step is a deactivate_old_alerts that changed some row.
DeactivationStep == \E r \in weather_alerts : r \notin weather_alerts'

\* The step is an insert_alert of an entry whose fingerprint belongs to a
\* deactivated row.
RefetchOfDeactivated ==
    /\ last_alert_call' # last_alert_call
    /\ last_alert_call'.called
    /\ last_alert_call'.inactive

\* C30: deactivation never removes or resurrects history.
\* deactivate_old_alerts leaves the number of alert rows and every field but
\* the active flag unchanged, and no step removes a row or sets a cleared
\* flag again; re-fetching an entry whose fingerprint belongs to a
\* deactivated alert inserts no row, leaves the old row inactive, and
\* returns False, so entries_added does not count it.
C30_DeactivationKeepsHistory ==
    [][/\ \A r \in weather_alerts : KeptOrDeactivated(r)
       /\ DeactivationStep =>
              /\ Cardinality(weather_alerts') = Cardinality(weather_alerts)
              /\ StoredHashes(weather_alerts') = StoredHashes(weather_alerts)
       /\ \A r \in weather_alerts' \ weather_alerts :
              \/ r.content_hash \notin StoredHashes(weather_alerts)
              \/ r.is_active = 0
       /\ RefetchOfDeactivated =>
              /\ weather_alerts' = weather_alerts
              /\ ~last_alert_call'.ok]_vars

\* An entry was re-fetched whose fingerprint belonged to a deactivated row:
\* the call returned False and the one row stored is still inactive.
C30_Witness ==
    /\ last_alert_call.called
    /\ last_alert_call.inactive
    /\ ~last_alert_call.ok
    /\ Cardinality(weather_alerts) = 1
    /\ \A r \in weather_alerts : r.is_active = 0 /\ r.fetched_at < now

====
